---- MODULE Spec2Model ----
(***************************************************************************)
(* GPUProfileCollection (src/main.py): an in-memory registry of GPU        *)
(* profiles.  Each profile has an idle power, a list of supported clocks   *)
(* and, per service, a dict clock -> (rps, total active power).            *)
(*                                                                         *)
(* Python lists and dicts are objects: the model keeps them in a heap,     *)
(* addressed by reference, so that a copy and an alias are different       *)
(* things.  A dict is the sequence of its items in insertion order (the    *)
(* order Python's dict iterates in); a list is the sequence of its items.  *)
(*                                                                         *)
(* Every method is an operator from the program state st = [profiles,      *)
(* heap] and the arguments to [st, raised, ret]: the state after the call, *)
(* the exception raised ("none" when it returns) and the returned value.   *)
(* The timestamps are written and never read by any method: every value of *)
(* time.time() is the one value Now, and the state keeps which timestamps  *)
(* exist.                                                                  *)
(***************************************************************************)
EXTENDS Integers, Sequences, FiniteSets, TLC

VARIABLES profiles, heap, held, supplied, latest, firstOrder

vars == <<profiles, heap, held, supplied, latest, firstOrder>>

(***************************************************************************)
(* Bounds and input sets                                                   *)
(***************************************************************************)
\* largest number of (device, service, clock) keys that are recorded, and
\* largest number of entries the measurement dicts hold together
MaxMeasurements == 2
\* longest list of clocks the caller builds
MaxListLen == 3

GPUIds == {"Tesla_V100", "GPU_Test"}
ServiceIds == {"ResNet50", "BERT"}
\* clocks measurements are taken at
MeasuredClocks == {1000, 1350}
\* the caller's list of supported clocks when it is created, and what the
\* caller appends to it later
InitialClocks == <<1200, 1000>>
AppendedClock == 2000
\* idle 0: every measured power is dynamic power; idle 2: none is
IdlePowers == {0, 2}
\* the <<rps, total active power>> pairs that are measured: no throughput,
\* 1/1 and 2/2 (equal efficiency at idle power 0), and 1/2
Measurements == {<<0, 1>>, <<1, 1>>, <<2, 2>>, <<1, 2>>}

\* Python's None; a present value v is Some(v)
None == <<>>

Some(v) == <<v>>

(***************************************************************************)
(* The heap                                                                *)
(***************************************************************************)
\* the caller's own list object, the one it passes to add_gpu
CallerList == <<"caller", "-", "-">>
\* list(supported_clocks) of the profile of gpu_id
ClocksObj(gpu_id) == <<"clocks", gpu_id, "-">>
\* the dict created for (gpu_id, svc_id) on the first measurement
TableObj(gpu_id, svc_id) == <<"table", gpu_id, svc_id>>

EmptyMap == [x \in {} |-> None]

\* time.time()
Now == "now"

State == [profiles |-> profiles, heap |-> heap]

(***************************************************************************)
(* dict: a sequence of <<key, value>> in insertion order                   *)
(***************************************************************************)
DictKeys(dict) == {dict[i][1] : i \in 1 .. Len(dict)}

DictIndex(dict, k) == CHOOSE i \in 1 .. Len(dict) : dict[i][1] = k

\* dict.get(k)
DictGet(dict, k) ==
    IF k \in DictKeys(dict) THEN Some(dict[DictIndex(dict, k)][2]) ELSE None

\* faulty variant: every write adds an item
DictSetAppending(dict, k, v) == Append(dict, <<k, v>>)

\* dict[k] = v: an existing key keeps its place, a new key goes last
DictSet(dict, k, v) ==
    IF k \in DictKeys(dict)
    THEN [dict EXCEPT ![DictIndex(dict, k)] = <<k, v>>]
    ELSE Append(dict, <<k, v>>)

\* del dict[k]
DictDel(dict, k) == SelectSeq(dict, LAMBDA item : item[1] # k)

(***************************************************************************)
(* Optional values and call results                                        *)
(***************************************************************************)
Result(st, raised, ret) == [st |-> st, raised |-> raised, ret |-> ret]

(***************************************************************************)
(* GPUProfile                                                              *)
(***************************************************************************)
\* faulty variant: the profile keeps the caller's list itself
GPUProfileAliasing(h, gpu_id, idle_power, supported_clocks) ==
    [profile |-> [idle_power |-> idle_power,
                  supported_clocks |-> supported_clocks,
                  service_measurements_map |-> EmptyMap,
                  last_general_update_timestamp |-> Now,
                  last_service_update_timestamps |-> EmptyMap],
     heap |-> h]

\* faulty variant: the profile starts with an empty dict for every service
GPUProfilePrefilled(h, gpu_id, idle_power, supported_clocks) ==
    [profile |-> [idle_power |-> idle_power,
                  supported_clocks |-> ClocksObj(gpu_id),
                  service_measurements_map |->
                      [svc_id \in ServiceIds |-> TableObj(gpu_id, svc_id)],
                  last_general_update_timestamp |-> Now,
                  last_service_update_timestamps |-> EmptyMap],
     heap |-> [ref \in {TableObj(gpu_id, svc_id) : svc_id \in ServiceIds}
                  |-> <<>>]
              @@ (ClocksObj(gpu_id) :> h[supported_clocks]) @@ h]

\* GPUProfile.__init__ run for gpu_id on heap h; supported_clocks is a
\* reference to the caller's list, list(supported_clocks) a new list object
GPUProfile(h, gpu_id, idle_power, supported_clocks) ==
    [profile |-> [idle_power |-> idle_power,
                  supported_clocks |-> ClocksObj(gpu_id),
                  service_measurements_map |-> EmptyMap,
                  last_general_update_timestamp |-> Now,
                  last_service_update_timestamps |-> EmptyMap],
     heap |-> (ClocksObj(gpu_id) :> h[supported_clocks]) @@ h]

(***************************************************************************)
(* GPUProfileCollection                                                    *)
(***************************************************************************)
is_gpu_exist(st, gpu_id) == gpu_id \in DOMAIN st.profiles

is_service_measurements_exist_for_gpu(st, gpu_id, svc_id) ==
    IF ~ is_gpu_exist(st, gpu_id)
    THEN FALSE
    ELSE svc_id \in DOMAIN st.profiles[gpu_id].service_measurements_map

\* faulty variant: no check for an existing id, the new profile replaces the old one
add_gpu_replacing(st, gpu_id, initial_idle_power, initial_supported_clocks) ==
    LET new == GPUProfile(st.heap, gpu_id, initial_idle_power,
                          initial_supported_clocks)
    IN  Result([profiles |-> (gpu_id :> new.profile) @@ st.profiles,
                heap |-> new.heap], "none", None)

add_gpu(st, gpu_id, initial_idle_power, initial_supported_clocks) ==
    IF gpu_id \in DOMAIN st.profiles
    THEN Result(st, "ValueError", None)
    ELSE LET new == GPUProfile(st.heap, gpu_id, initial_idle_power,
                               initial_supported_clocks)
         IN  Result([profiles |-> (gpu_id :> new.profile) @@ st.profiles,
                     heap |-> new.heap], "none", None)

\* faulty variant: the new idle power is not stored
update_gpu_idle_power_dropped(st, gpu_id, new_idle_power) ==
    IF gpu_id \notin DOMAIN st.profiles
    THEN Result(st, "KeyError", None)
    ELSE Result(st, "none", None)

update_gpu_idle_power(st, gpu_id, new_idle_power) ==
    IF gpu_id \notin DOMAIN st.profiles
    THEN Result(st, "KeyError", None)
    ELSE Result([st EXCEPT
                    !.profiles[gpu_id].idle_power = new_idle_power,
                    !.profiles[gpu_id].last_general_update_timestamp = Now],
                "none", None)

get_gpu_idle_power(st, gpu_id) ==
    IF gpu_id \notin DOMAIN st.profiles
    THEN Result(st, "KeyError", None)
    ELSE Result(st, "none", Some(st.profiles[gpu_id].idle_power))

\* lines 91-95: the measurement goes into the dict of svc_id, created if need be
StoreMeasurement(st, gpu_id, svc_id, clk, measured_rps, measured_total_active_power) ==
    LET map == st.profiles[gpu_id].service_measurements_map
        fresh == svc_id \notin DOMAIN map
        map1 == IF fresh THEN (svc_id :> TableObj(gpu_id, svc_id)) @@ map
                ELSE map
        heap1 == IF fresh THEN (TableObj(gpu_id, svc_id) :> <<>>) @@ st.heap
                 ELSE st.heap
        heap2 == [heap1 EXCEPT ![map1[svc_id]] =
                     DictSet(@, clk, <<measured_rps,
                                       measured_total_active_power>>)]
    IN  [profiles |-> [st.profiles EXCEPT
                          ![gpu_id].service_measurements_map = map1,
                          ![gpu_id].last_service_update_timestamps =
                              (svc_id :> Now) @@ @],
         heap |-> heap2]

\* faulty variant: a measurement for an unknown device creates the device
add_or_update_creating_device(st, gpu_id, svc_id, clk, measured_rps, measured_total_active_power) ==
    LET st1 == IF gpu_id \in DOMAIN st.profiles THEN st
               ELSE [profiles |->
                        (gpu_id :> [idle_power |-> 0,
                                    supported_clocks |-> ClocksObj(gpu_id),
                                    service_measurements_map |-> EmptyMap,
                                    last_general_update_timestamp |-> Now,
                                    last_service_update_timestamps |-> EmptyMap])
                        @@ st.profiles,
                     heap |-> (ClocksObj(gpu_id) :> <<>>) @@ st.heap]
    IN  Result(StoreMeasurement(st1, gpu_id, svc_id, clk, measured_rps,
                                measured_total_active_power), "none", None)

add_or_update_service_clock_measurement(st, gpu_id, svc_id, clk, measured_rps, measured_total_active_power) ==
    IF gpu_id \notin DOMAIN st.profiles
    THEN Result(st, "KeyError", None)
    ELSE Result(StoreMeasurement(st, gpu_id, svc_id, clk, measured_rps,
                                 measured_total_active_power), "none", None)

(***************************************************************************)
(* Efficiency: rps / dynamic_power is a quotient of two positive numbers,  *)
(* kept as the fraction <<numerator, denominator>> in lowest terms.  On    *)
(* the small integers of this model the float quotient orders and equals   *)
(* exactly as the fraction does.                                           *)
(***************************************************************************)
RECURSIVE GCD(_, _)
GCD(a, b) == IF b = 0 THEN a ELSE GCD(b, a % b)

Quotient(a, b) == <<a \div GCD(a, b), b \div GCD(a, b)>>

\* 0.0
Zero == <<0, 1>>

\* faulty variant: best_efficiency starts at 0.0
SentinelZero == <<0, 1>>

\* best_efficiency = -1.0
Sentinel == <<-1, 1>>

\* x > y on fractions with positive denominators
Greater(x, y) == x[1] * y[2] > y[1] * x[2]

\* lines 120-124
Efficiency(rps, dynamic_power) ==
    IF rps <= 0 \/ dynamic_power <= 0
    THEN Zero
    ELSE Quotient(rps, dynamic_power)

\* faulty variant: >= for >
ImprovesOrTies(efficiency, best_efficiency) ==
    ~ Greater(best_efficiency, efficiency)

\* line 126: does this entry replace the best one so far
Improves(efficiency, best_efficiency) == Greater(efficiency, best_efficiency)

\* faulty variant: the total active power is reported as the dynamic power
OptimalValuesTotalForDynamic(clk, rps, dynamic_power, total_active_power, efficiency) ==
    [optimal_clock_mhz |-> clk,
     R_ij_rps_at_optimal_clock |-> rps,
     P_ij_dynamic_watts_at_optimal_clock |-> total_active_power,
     total_active_power_at_optimal_clock_watts |-> total_active_power,
     efficiency_at_optimal_clock |-> efficiency]

OptimalValues(clk, rps, dynamic_power, total_active_power, efficiency) ==
    [optimal_clock_mhz |-> clk,
     R_ij_rps_at_optimal_clock |-> rps,
     P_ij_dynamic_watts_at_optimal_clock |-> dynamic_power,
     total_active_power_at_optimal_clock_watts |-> total_active_power,
     efficiency_at_optimal_clock |-> efficiency]

\* the loop of lines 119-134 from item i on, with the loop's two variables
RECURSIVE Scan(_, _, _, _, _)
Scan(items, idle_power, i, best_efficiency, optimal_settings) ==
    IF i > Len(items)
    THEN optimal_settings
    ELSE LET clk == items[i][1]
             rps == items[i][2][1]
             total_active_power == items[i][2][2]
             dynamic_power == total_active_power - idle_power
             efficiency == Efficiency(rps, dynamic_power)
         IN  IF Improves(efficiency, best_efficiency)
             THEN Scan(items, idle_power, i + 1, efficiency,
                       Some(OptimalValues(clk, rps, dynamic_power,
                                          total_active_power, efficiency)))
             ELSE Scan(items, idle_power, i + 1, best_efficiency,
                       optimal_settings)

calculate_and_get_optimal_energy_settings(st, gpu_id, svc_id) ==
    IF ~ is_service_measurements_exist_for_gpu(st, gpu_id, svc_id)
    THEN Result(st, "none", None)
    ELSE LET gpu_profile == st.profiles[gpu_id]
             idle_power == gpu_profile.idle_power
             service_clock_perf_map ==
                 st.heap[gpu_profile.service_measurements_map[svc_id]]
         IN  IF service_clock_perf_map = <<>>
             THEN Result(st, "none", None)
             ELSE Result(st, "none",
                         Scan(service_clock_perf_map, idle_power, 1, Sentinel,
                              None))

get_service_clock_measurement(st, gpu_id, svc_id, clk) ==
    IF ~ is_service_measurements_exist_for_gpu(st, gpu_id, svc_id)
    THEN Result(st, "none", None)
    ELSE LET service_map ==
                 st.heap[st.profiles[gpu_id].service_measurements_map[svc_id]]
         IN  Result(st, "none", DictGet(service_map, clk))

\* faulty variant: returns dict(...), a new dict with the same items
get_all_service_clock_measurements_copy(st, gpu_id, svc_id) ==
    IF ~ is_service_measurements_exist_for_gpu(st, gpu_id, svc_id)
    THEN Result(st, "none", None)
    ELSE LET copy == <<"copy", gpu_id, svc_id>>
             items == st.heap[st.profiles[gpu_id].service_measurements_map[svc_id]]
         IN  Result([st EXCEPT !.heap = (copy :> items) @@ st.heap], "none",
                    Some(copy))

\* returns the reference held in service_measurements_map, not a copy
get_all_service_clock_measurements(st, gpu_id, svc_id) ==
    IF ~ is_service_measurements_exist_for_gpu(st, gpu_id, svc_id)
    THEN Result(st, "none", None)
    ELSE Result(st, "none",
                Some(st.profiles[gpu_id].service_measurements_map[svc_id]))

\* returns the reference held in the profile, not a copy
get_supported_clocks(st, gpu_id) ==
    IF gpu_id \notin DOMAIN st.profiles
    THEN Result(st, "KeyError", None)
    ELSE Result(st, "none", Some(st.profiles[gpu_id].supported_clocks))

(***************************************************************************)
(* The state machine.  profiles and heap are the program's state.  held is *)
(* the reference the caller last got from get_all_service_clock_           *)
(* measurements or get_supported_clocks.  Three history variables record   *)
(* the calls that succeeded: supplied[gpu_id] is the list passed to        *)
(* add_gpu as it was at the call, latest[gpu_id, svc_id, clk] the pair     *)
(* last recorded, firstOrder[gpu_id, svc_id] the clocks in the order they  *)
(* were first recorded.                                                    *)
(***************************************************************************)
Keys == GPUIds \X ServiceIds \X MeasuredClocks

\* the number of entries of all the measurement dicts of heap h
NumMeasurements(h) ==
    Cardinality(UNION {{<<ref, i>> : i \in 1 .. Len(h[ref])} :
                       ref \in {x \in DOMAIN h : x[1] = "table"}})

\* the number of (device, service, clock) keys recorded so far
NumRecorded == Cardinality({k \in Keys : latest[k] # None})

Init ==
    /\ profiles = EmptyMap
    /\ heap = (CallerList :> InitialClocks)
    /\ held = None
    /\ supplied = [gpu_id \in GPUIds |-> None]
    /\ latest = [k \in Keys |-> None]
    /\ firstOrder = [p \in GPUIds \X ServiceIds |-> <<>>]

Becomes(r) == profiles' = r.st.profiles /\ heap' = r.st.heap

AddGPU(ids) ==
    \E gpu_id \in ids, idle_power \in IdlePowers :
        LET r == add_gpu(State, gpu_id, idle_power, CallerList)
        IN  /\ Becomes(r)
            /\ supplied' = IF r.raised = "none"
                           THEN [supplied EXCEPT ![gpu_id] = Some(heap[CallerList])]
                           ELSE supplied
            /\ UNCHANGED <<held, latest, firstOrder>>

UpdateGPUIdlePower(ids) ==
    \E gpu_id \in ids, new_idle_power \in IdlePowers :
        /\ Becomes(update_gpu_idle_power(State, gpu_id, new_idle_power))
        /\ UNCHANGED <<held, supplied, latest, firstOrder>>

AddOrUpdateServiceClockMeasurement(ids, svcs) ==
    \E gpu_id \in ids, svc_id \in svcs, clk \in MeasuredClocks,
       m \in Measurements :
        LET rps == m[1]
            power == m[2]
            r == add_or_update_service_clock_measurement(
                     State, gpu_id, svc_id, clk, rps, power)
        IN  /\ \/ NumRecorded < MaxMeasurements
                \/ latest[<<gpu_id, svc_id, clk>>] # None
            /\ Becomes(r)
            /\ latest' = IF r.raised = "none"
                         THEN [latest EXCEPT ![<<gpu_id, svc_id, clk>>] =
                                  Some(<<rps, power>>)]
                         ELSE latest
            /\ firstOrder' =
                   IF r.raised = "none" /\ latest[<<gpu_id, svc_id, clk>>] = None
                   THEN [firstOrder EXCEPT ![<<gpu_id, svc_id>>] = Append(@, clk)]
                   ELSE firstOrder
            /\ UNCHANGED <<held, supplied>>

\* the caller changes the list it passed to add_gpu
CallerAppendsToOwnList ==
    /\ Len(heap[CallerList]) < MaxListLen
    /\ heap' = [heap EXCEPT ![CallerList] = Append(@, AppendedClock)]
    /\ UNCHANGED <<profiles, held, supplied, latest, firstOrder>>

GetAllServiceClockMeasurements(ids, svcs) ==
    \E gpu_id \in ids, svc_id \in svcs :
        LET r == get_all_service_clock_measurements(State, gpu_id, svc_id)
        IN  /\ Becomes(r)
            /\ held' = r.ret
            /\ UNCHANGED <<supplied, latest, firstOrder>>

GetSupportedClocks(ids) ==
    \E gpu_id \in ids :
        LET r == get_supported_clocks(State, gpu_id)
        IN  /\ Becomes(r)
            /\ held' = IF r.raised = "none" THEN r.ret ELSE held
            /\ UNCHANGED <<supplied, latest, firstOrder>>

IsList(ref) == ref[1] \in {"caller", "clocks"}

IsTable(ref) == ~ IsList(ref)

\* the caller writes, or deletes, an entry of the dict it was handed
CallerWritesHeldTable ==
    /\ held # None /\ IsTable(held[1])
    /\ \E clk \in MeasuredClocks, m \in Measurements :
           /\ \/ NumMeasurements(heap) < MaxMeasurements
              \/ clk \in DictKeys(heap[held[1]])
           /\ heap' = [heap EXCEPT ![held[1]] = DictSet(@, clk, m)]
    /\ UNCHANGED <<profiles, held, supplied, latest, firstOrder>>

CallerDeletesFromHeldTable ==
    /\ held # None /\ IsTable(held[1])
    /\ \E clk \in DictKeys(heap[held[1]]) :
           heap' = [heap EXCEPT ![held[1]] = DictDel(@, clk)]
    /\ UNCHANGED <<profiles, held, supplied, latest, firstOrder>>

\* the caller appends to the list it was handed
CallerAppendsToHeldList ==
    /\ held # None /\ ~ IsTable(held[1])
    /\ Len(heap[held[1]]) < MaxListLen
    /\ heap' = [heap EXCEPT ![held[1]] = Append(@, AppendedClock)]
    /\ UNCHANGED <<profiles, held, supplied, latest, firstOrder>>

\* the registry's methods, called by a caller that keeps no reference into it
Next ==
    \/ AddGPU(GPUIds)
    \/ UpdateGPUIdlePower(GPUIds)
    \/ AddOrUpdateServiceClockMeasurement(GPUIds, ServiceIds)

Spec == Init /\ [][Next]_vars

OneService == {"ResNet50"}

\* the same for one service, with a caller that goes on changing the list it
\* passed to add_gpu
NextClocks ==
    \/ AddGPU(GPUIds)
    \/ UpdateGPUIdlePower(GPUIds)
    \/ AddOrUpdateServiceClockMeasurement(GPUIds, OneService)
    \/ CallerAppendsToOwnList

SpecClocks == Init /\ [][NextClocks]_vars

\* a caller that works on one device and one service, keeps the objects the
\* getters hand out and changes them
OneGPU == {"Tesla_V100"}

NextCaller ==
    \/ AddGPU(OneGPU)
    \/ UpdateGPUIdlePower(OneGPU)
    \/ AddOrUpdateServiceClockMeasurement(OneGPU, OneService)
    \/ GetAllServiceClockMeasurements(OneGPU, OneService)
    \/ GetSupportedClocks(OneGPU)
    \/ CallerWritesHeldTable
    \/ CallerDeletesFromHeldTable
    \/ CallerAppendsToHeldList

SpecCaller == Init /\ [][NextCaller]_vars

(***************************************************************************)
(* What the properties below speak of                                      *)
(***************************************************************************)
Pairs == GPUIds \X ServiceIds

Elems(seq) == {seq[i] : i \in 1 .. Len(seq)}

Position(seq, x) == CHOOSE i \in 1 .. Len(seq) : seq[i] = x

\* every clock a caller may ask about, measured or not
AllClocks == MeasuredClocks \cup Elems(InitialClocks)

\* the items of the dict the registry stores for (gpu_id, svc_id)
StoredTable(st, gpu_id, svc_id) ==
    st.heap[st.profiles[gpu_id].service_measurements_map[svc_id]]

\* the pair last recorded for a key that was recorded
Recorded(gpu_id, svc_id, clk) == latest[<<gpu_id, svc_id, clk>>][1]

\* efficiency as the specification defines it, as an unreduced fraction
SpecEfficiency(rps, total_active_power, idle_power) ==
    IF rps <= 0 \/ total_active_power - idle_power <= 0
    THEN <<0, 1>>
    ELSE <<rps, total_active_power - idle_power>>

SameFraction(x, y) == x[1] * y[2] = y[1] * x[2]

AtLeast(x, y) == x[1] * y[2] >= y[1] * x[2]

\* the efficiency of the entry recorded at clk, were the idle power idle_power
EfficiencyAt(gpu_id, svc_id, clk, idle_power) ==
    SpecEfficiency(Recorded(gpu_id, svc_id, clk)[1],
                   Recorded(gpu_id, svc_id, clk)[2], idle_power)

\* clk has the greatest efficiency of the recorded entries of (gpu_id, svc_id)
\* and is the first, in the order of first recording, of those that have it
IsFirstBest(gpu_id, svc_id, clk, idle_power) ==
    LET order == firstOrder[<<gpu_id, svc_id>>]
        eff(c) == EfficiencyAt(gpu_id, svc_id, c, idle_power)
    IN  /\ clk \in Elems(order)
        /\ \A c \in Elems(order) : AtLeast(eff(clk), eff(c))
        /\ \A c \in Elems(order) :
               SameFraction(eff(c), eff(clk))
                   => Position(order, clk) <= Position(order, c)

\* the result o describes the entry stored at its clock under idle_power
Consistent(st, gpu_id, svc_id, o, idle_power) ==
    LET rps == o.R_ij_rps_at_optimal_clock
        total == o.total_active_power_at_optimal_clock_watts
        dynamic == o.P_ij_dynamic_watts_at_optimal_clock
        eff == o.efficiency_at_optimal_clock
    IN  /\ o.optimal_clock_mhz \in DictKeys(StoredTable(st, gpu_id, svc_id))
        /\ get_service_clock_measurement(st, gpu_id, svc_id,
                                         o.optimal_clock_mhz).ret
               = Some(<<rps, total>>)
        /\ dynamic = total - idle_power
        /\ eff[2] > 0
        /\ IF rps <= 0 \/ dynamic <= 0
           THEN eff[1] = 0
           ELSE eff[1] * dynamic = rps * eff[2]
        /\ eff[1] >= 0
        /\ eff # Sentinel

\* the results of every call of a method that changes the registry
MutatorCalls(st) ==
    {add_gpu(st, gpu_id, idle_power, CallerList) :
         gpu_id \in GPUIds, idle_power \in IdlePowers}
    \cup {update_gpu_idle_power(st, gpu_id, idle_power) :
              gpu_id \in GPUIds, idle_power \in IdlePowers}
    \cup {add_or_update_service_clock_measurement(st, k[1], k[2], k[3],
                                                  v[1], v[2]) :
              k \in Keys, v \in Measurements}

(***************************************************************************)
(* Properties                                                              *)
(***************************************************************************)

\* C1: add_gpu of an id that is not in the registry returns and is_gpu_exist
\* is true afterwards; add_gpu of an id that is in the registry, whatever the
\* idle power and the list passed, raises ValueError and leaves the whole
\* state as it was: the profile's idle power, its clocks and its tables.
C1_AddThenDuplicate ==
    \A gpu_id \in GPUIds, idle_power \in IdlePowers :
        LET r == add_gpu(State, gpu_id, idle_power, CallerList)
        IN  IF gpu_id \notin DOMAIN profiles
            THEN /\ r.raised = "none"
                 /\ is_gpu_exist(r.st, gpu_id)
                 /\ \A idle2 \in IdlePowers :
                        add_gpu(r.st, gpu_id, idle2, CallerList)
                            = Result(r.st, "ValueError", None)
            ELSE r = Result(State, "ValueError", None)

\* a device with measurements, added with another list than the caller now
\* has, and a second add_gpu with another idle power that is refused
C1_Witness ==
    \E gpu_id \in DOMAIN profiles, idle_power \in IdlePowers :
        /\ idle_power # profiles[gpu_id].idle_power
        /\ supplied[gpu_id] # Some(heap[CallerList])
        /\ DOMAIN profiles[gpu_id].service_measurements_map # {}
        /\ add_gpu(State, gpu_id, idle_power, CallerList).raised = "ValueError"

\* C2: calculate_and_get_optimal_energy_settings never raises and changes
\* nothing; it returns None exactly for the pairs no measurement was ever
\* recorded for (unknown devices among them), and a result for every other
\* pair, also when every entry has efficiency 0.
C2_AbsentIffNeverRecorded ==
    \A p \in Pairs :
        LET r == calculate_and_get_optimal_energy_settings(State, p[1], p[2])
        IN  /\ r.raised = "none"
            /\ r.st = State
            /\ (r.ret = None) <=> (firstOrder[p] = <<>>)

\* a table whose entries all have efficiency 0 and yet give a result, beside
\* a device that does not exist and gives None
C2_Witness ==
    /\ \E p \in Pairs :
           /\ Len(firstOrder[p]) >= 2
           /\ \A c \in Elems(firstOrder[p]) :
                  EfficiencyAt(p[1], p[2], c, profiles[p[1]].idle_power)[1] = 0
           /\ calculate_and_get_optimal_energy_settings(State, p[1], p[2]).ret
                  # None
    /\ \E p \in Pairs :
           /\ p[1] \notin DOMAIN profiles
           /\ calculate_and_get_optimal_energy_settings(State, p[1], p[2]).ret
                  = None

\* C3: for every pair with measurements the dict iterates in the order the
\* clocks were first recorded, and the clock of the result has an efficiency
\* no entry exceeds and is the first, in that order, of the entries that have
\* that efficiency.
C3_FirstOfTheBest ==
    \A p \in Pairs :
        firstOrder[p] # <<>> =>
            LET r == calculate_and_get_optimal_energy_settings(State, p[1], p[2])
                table == StoredTable(State, p[1], p[2])
            IN  /\ [i \in 1 .. Len(table) |-> table[i][1]] = firstOrder[p]
                /\ r.ret # None
                /\ IsFirstBest(p[1], p[2], r.ret[1].optimal_clock_mhz,
                               profiles[p[1]].idle_power)

\* two different entries with the same positive efficiency, the one with the
\* higher clock recorded first, and it is the result
C3_Witness ==
    \E p \in Pairs :
        /\ firstOrder[p] = <<1350, 1000>>
        /\ Recorded(p[1], p[2], 1350) # Recorded(p[1], p[2], 1000)
        /\ EfficiencyAt(p[1], p[2], 1350, profiles[p[1]].idle_power)[1] > 0
        /\ SameFraction(
               EfficiencyAt(p[1], p[2], 1350, profiles[p[1]].idle_power),
               EfficiencyAt(p[1], p[2], 1000, profiles[p[1]].idle_power))
        /\ calculate_and_get_optimal_energy_settings(State, p[1], p[2])
               .ret[1].optimal_clock_mhz = 1350

\* C4: get_service_clock_measurement never raises; it returns the pair of the
\* last add_or_update_service_clock_measurement that returned for that
\* device, service and clock, and None if there was none (unknown device,
\* service without measurements, clock never recorded).  A table has one
\* entry for each clock recorded, and recording at a clock again stores the
\* new pair without adding an entry.
C4_LatestMeasurement ==
    /\ \A p \in Pairs, clk \in AllClocks :
           get_service_clock_measurement(State, p[1], p[2], clk)
               = Result(State, "none",
                        IF clk \in MeasuredClocks
                        THEN latest[<<p[1], p[2], clk>>] ELSE None)
    /\ \A p \in Pairs :
           is_service_measurements_exist_for_gpu(State, p[1], p[2]) =>
               Len(StoredTable(State, p[1], p[2]))
                   = Cardinality({clk \in MeasuredClocks :
                                     latest[<<p[1], p[2], clk>>] # None})
    /\ \A k \in Keys, v \in Measurements :
           latest[k] # None =>
               LET r == add_or_update_service_clock_measurement(
                            State, k[1], k[2], k[3], v[1], v[2])
               IN  /\ r.raised = "none"
                   /\ get_service_clock_measurement(r.st, k[1], k[2], k[3]).ret
                          = Some(v)
                   /\ Len(StoredTable(r.st, k[1], k[2]))
                          = Len(StoredTable(State, k[1], k[2]))

\* a table with two entries, a service without any on the same device, and a
\* device that does not exist
C4_Witness ==
    /\ \E p \in Pairs :
           /\ is_service_measurements_exist_for_gpu(State, p[1], p[2])
           /\ Len(StoredTable(State, p[1], p[2])) = 2
           /\ \E svc_id \in ServiceIds :
                  ~ is_service_measurements_exist_for_gpu(State, p[1], svc_id)
    /\ GPUIds \ DOMAIN profiles # {}

\* C5: update_gpu_idle_power of a known device returns; right afterwards
\* get_gpu_idle_power returns the new value, every measurement is as it was,
\* and calculate_and_get_optimal_energy_settings picks the winner, and
\* reports dynamic power and efficiency, for the new idle power.
C5_IdlePowerTakesEffect ==
    \A gpu_id \in DOMAIN profiles, p \in IdlePowers :
        LET r == update_gpu_idle_power(State, gpu_id, p)
        IN  /\ r.raised = "none"
            /\ get_gpu_idle_power(r.st, gpu_id) = Result(r.st, "none", Some(p))
            /\ \A svc_id \in ServiceIds :
                   LET o == calculate_and_get_optimal_energy_settings(
                                r.st, gpu_id, svc_id).ret
                   IN  /\ is_service_measurements_exist_for_gpu(r.st, gpu_id, svc_id)
                           = is_service_measurements_exist_for_gpu(State, gpu_id, svc_id)
                       /\ \A clk \in MeasuredClocks :
                              get_service_clock_measurement(r.st, gpu_id, svc_id, clk).ret
                                  = latest[<<gpu_id, svc_id, clk>>]
                       /\ IF firstOrder[<<gpu_id, svc_id>>] = <<>>
                          THEN o = None
                          ELSE /\ o # None
                               /\ IsFirstBest(gpu_id, svc_id,
                                              o[1].optimal_clock_mhz, p)
                               /\ Consistent(r.st, gpu_id, svc_id, o[1], p)

\* a device whose winner for some service is another clock once the idle
\* power is updated to another value
C5_Witness ==
    \E gpu_id \in DOMAIN profiles, p \in IdlePowers, svc_id \in ServiceIds :
        /\ p # profiles[gpu_id].idle_power
        /\ firstOrder[<<gpu_id, svc_id>>] # <<>>
        /\ calculate_and_get_optimal_energy_settings(
               update_gpu_idle_power(State, gpu_id, p).st, gpu_id, svc_id)
               .ret[1].optimal_clock_mhz
           # calculate_and_get_optimal_energy_settings(State, gpu_id, svc_id)
               .ret[1].optimal_clock_mhz

\* the measurement tables as the registry's getters show them
StoredTables ==
    [p \in Pairs |->
        IF is_service_measurements_exist_for_gpu(State, p[1], p[2])
        THEN Some(StoredTable(State, p[1], p[2]))
        ELSE None]

\* C6, as claimed: a step in which the caller writes or deletes an entry of
\* the table it got from get_all_service_clock_measurements leaves every
\* table the registry stores as it was.
C6_ReturnedTableIsACopy ==
    [][(CallerWritesHeldTable \/ CallerDeletesFromHeldTable)
           => StoredTables' = StoredTables]_vars

\* C6, as the code has it: the table get_all_service_clock_measurements
\* returns is the dict the registry stores for that device and service, not
\* a copy; at every moment, also after the caller wrote or deleted entries of
\* it and after later recordings, it has the items of the stored dict, and
\* get_service_clock_measurement returns what the caller's table holds.
C6_ReturnedTableIsStored ==
    (held # None /\ IsTable(held[1])) =>
        LET gpu_id == held[1][2]
            svc_id == held[1][3]
        IN  /\ is_service_measurements_exist_for_gpu(State, gpu_id, svc_id)
            /\ heap[held[1]] = StoredTable(State, gpu_id, svc_id)
            /\ \A clk \in MeasuredClocks :
                   get_service_clock_measurement(State, gpu_id, svc_id, clk).ret
                       = DictGet(heap[held[1]], clk)

\* the caller holds a table and has changed it: an entry of it is not what
\* was recorded, and the registry reports the caller's entry
C6_Witness ==
    /\ held # None /\ IsTable(held[1])
    /\ \E clk \in MeasuredClocks :
           /\ DictGet(heap[held[1]], clk) # latest[<<held[1][2], held[1][3], clk>>]
           /\ get_service_clock_measurement(State, held[1][2], held[1][3], clk).ret
                  # latest[<<held[1][2], held[1][3], clk>>]

\* C7: get_supported_clocks of a device that was added returns, changes
\* nothing, and the list it returns has the items, in their order, that the
\* list passed to add_gpu had at that call: later measurements, idle power
\* updates, add_gpu calls and the caller's changes of its own list do not
\* show in it.
C7_SupportedClocksAsSupplied ==
    \A gpu_id \in GPUIds :
        /\ (supplied[gpu_id] # None) <=> (gpu_id \in DOMAIN profiles)
        /\ supplied[gpu_id] # None =>
               LET r == get_supported_clocks(State, gpu_id)
               IN  /\ r.raised = "none"
                   /\ r.st = State
                   /\ r.ret # None
                   /\ heap[r.ret[1]] = supplied[gpu_id][1]

\* a device whose caller has since appended to the list it passed, with a
\* measurement at a clock that is not in its list
C7_Witness ==
    \E gpu_id \in DOMAIN profiles :
        /\ supplied[gpu_id] # None
        /\ Len(supplied[gpu_id][1]) >= 2
        /\ heap[CallerList] # supplied[gpu_id][1]
        /\ \E svc_id \in ServiceIds, clk \in MeasuredClocks :
               /\ latest[<<gpu_id, svc_id, clk>>] # None
               /\ clk \notin Elems(supplied[gpu_id][1])

\* C8: for a device id that is not in the registry, update_gpu_idle_power,
\* get_gpu_idle_power, add_or_update_service_clock_measurement and
\* get_supported_clocks raise KeyError and leave the whole state as it was:
\* no device, idle power, list or table is created or changed.
C8_UnknownDeviceNoEffect ==
    \A gpu_id \in GPUIds \ DOMAIN profiles :
        /\ \A p \in IdlePowers :
               update_gpu_idle_power(State, gpu_id, p)
                   = Result(State, "KeyError", None)
        /\ get_gpu_idle_power(State, gpu_id) = Result(State, "KeyError", None)
        /\ \A svc_id \in ServiceIds, clk \in MeasuredClocks,
              v \in Measurements :
               add_or_update_service_clock_measurement(
                   State, gpu_id, svc_id, clk, v[1], v[2])
                   = Result(State, "KeyError", None)
        /\ get_supported_clocks(State, gpu_id) = Result(State, "KeyError", None)

\* one device is missing while another exists and has measurements
C8_Witness ==
    /\ GPUIds \ DOMAIN profiles # {}
    /\ \E gpu_id \in DOMAIN profiles :
           DOMAIN profiles[gpu_id].service_measurements_map # {}
    /\ \E gpu_id \in GPUIds \ DOMAIN profiles :
           add_or_update_service_clock_measurement(
               State, gpu_id, "BERT", 1000, 1, 1).raised = "KeyError"

\* C9: is_service_measurements_exist_for_gpu is true exactly for the pairs a
\* measurement was recorded for, so it is false for an unknown device and
\* for a device just added; every dict the registry stores has an entry; and
\* no call of add_gpu, update_gpu_idle_power or
\* add_or_update_service_clock_measurement makes it false again.
C9_TableIffRecorded ==
    /\ \A p \in Pairs :
           /\ is_service_measurements_exist_for_gpu(State, p[1], p[2])
                  <=> (firstOrder[p] # <<>>)
           /\ is_service_measurements_exist_for_gpu(State, p[1], p[2])
                  => (p[1] \in DOMAIN profiles
                      /\ StoredTable(State, p[1], p[2]) # <<>>)
    /\ \A r \in MutatorCalls(State), p \in Pairs :
           is_service_measurements_exist_for_gpu(State, p[1], p[2])
               => is_service_measurements_exist_for_gpu(r.st, p[1], p[2])
    /\ \A gpu_id \in GPUIds \ DOMAIN profiles, idle_power \in IdlePowers,
          svc_id \in ServiceIds :
           ~ is_service_measurements_exist_for_gpu(
                 add_gpu(State, gpu_id, idle_power, CallerList).st,
                 gpu_id, svc_id)

\* a device with measurements for one service and none for the other, and a
\* device that is not there yet
C9_Witness ==
    /\ \E gpu_id \in DOMAIN profiles :
           /\ is_service_measurements_exist_for_gpu(State, gpu_id, "ResNet50")
           /\ ~ is_service_measurements_exist_for_gpu(State, gpu_id, "BERT")
    /\ \E gpu_id \in GPUIds \ DOMAIN profiles :
           ~ is_service_measurements_exist_for_gpu(State, gpu_id, "ResNet50")

\* C10: every result of calculate_and_get_optimal_energy_settings has a
\* clock that is a key of the table, the rps and total active power stored
\* there, a dynamic power that is that power less the device's idle power,
\* and an efficiency that is 0 if rps <= 0 or dynamic power <= 0 and
\* rps / dynamic power otherwise: never negative, never the sentinel -1.
C10_ResultConsistent ==
    \A p \in Pairs :
        LET o == calculate_and_get_optimal_energy_settings(State, p[1], p[2]).ret
        IN  o # None =>
                Consistent(State, p[1], p[2], o[1], profiles[p[1]].idle_power)

\* a result with negative dynamic power and efficiency 0, and one with a
\* positive efficiency that is not a whole number
C10_Witness ==
    /\ \E p \in Pairs :
           LET o == calculate_and_get_optimal_energy_settings(State, p[1], p[2]).ret
           IN  /\ o # None
               /\ o[1].P_ij_dynamic_watts_at_optimal_clock < 0
               /\ o[1].R_ij_rps_at_optimal_clock > 0
               /\ o[1].efficiency_at_optimal_clock = Zero
    /\ \E p \in Pairs :
           LET o == calculate_and_get_optimal_energy_settings(State, p[1], p[2]).ret
           IN  /\ o # None
               /\ o[1].efficiency_at_optimal_clock[2] > 1

====
